---- MODULE Spec2Model ----
(***************************************************************************)
(* A model of the LinkedIn profile finder: search_cpa_profiles of          *)
(* src/linkedin_finder.py, one action per step of its two loops, and,      *)
(* beside it, search_profiles of src/demo_app.py over the same variables   *)
(* (its list `results` is all_results, its `organic` is organic_results,   *)
(* its `rank` is index).                                                   *)
(*                                                                         *)
(* Python strings that the code inspects character by character (the raw   *)
(* links) are sequences of one-character strings; strings the code only    *)
(* copies (names, states, titles, snippets) are TLA+ strings.  A Python     *)
(* dict is a function whose DOMAIN is the set of keys present.             *)
(***************************************************************************)
EXTENDS Integers, Sequences, FiniteSets, TLC

VARIABLES
    api_key,          \* os.getenv("SERPER_API_KEY")
    input_data,       \* the argument of search_cpa_profiles
    pc,               \* position in search_cpa_profiles
    person_ix,        \* 1-based position of `person` in input_data
    organic_results,  \* the list bound at line 100
    index,            \* next value of `index` of enumerate(organic_results, start=1)
    seen_urls,        \* the set bound at line 105
    all_results,      \* the list bound at line 76
    returned,         \* the DataFrame returned at line 141, NoTable before that
    posts,            \* history: positions in input_data for which requests.post was called
    responses,        \* history: what each call of requests.post led to
    row_person,       \* history: for each row of all_results, the person_ix it was appended under
    found_for_person  \* the flag of search_profiles (src/demo_app.py, line 63)

vars == <<api_key, input_data, pc, person_ix, organic_results, index, seen_urls,
          all_results, returned, posts, responses, row_person, found_for_person>>

(***************************************************************************)
(* Bounds of the model.                                                    *)
(***************************************************************************)
\* The persons of input_data.
MaxTargets == 2
\* The organic results of one response.
MaxOrganic == 2
\* The organic results of all the responses of a run together.
MaxResults == 2

(***************************************************************************)
(* Python values.                                                          *)
(***************************************************************************)
\* Python's None (a JSON null, an unset environment variable): not a str.
None == "<None>"
\* No DataFrame has been returned.
NoTable == [nothing |-> TRUE]
\* The empty dict.
EmptyDict == <<>>

\* dict.get(key, default)
Get(d, key, default) == IF key \in DOMAIN d THEN d[key] ELSE default

(***************************************************************************)
(* Character strings.                                                      *)
(***************************************************************************)
\* sub in s
Contains(s, sub) ==
    \E k \in 0..(Len(s) - Len(sub)) : SubSeq(s, k + 1, k + Len(sub)) = sub

\* 1-based s.find(c, start): the first position >= start holding c, 0 when there is none.
Find(s, c, start) ==
    LET hits == {k \in start..Len(s) : s[k] = c}
    IN  IF hits = {} THEN 0 ELSE CHOOSE k \in hits : \A j \in hits : k <= j

\* 1-based s.rfind(c): the last position holding c, 0 when there is none.
RFind(s, c) ==
    LET hits == {k \in 1..Len(s) : s[k] = c}
    IN  IF hits = {} THEN 0 ELSE CHOOSE k \in hits : \A j \in hits : k >= j

UpperCase == <<"A","B","C","D","E","F","G","H","I","J","K","L","M",
               "N","O","P","Q","R","S","T","U","V","W","X","Y","Z">>
LowerCase == <<"a","b","c","d","e","f","g","h","i","j","k","l","m",
               "n","o","p","q","r","s","t","u","v","w","x","y","z">>
Digits == {"0","1","2","3","4","5","6","7","8","9"}
Letters == {UpperCase[k] : k \in DOMAIN UpperCase} \cup {LowerCase[k] : k \in DOMAIN LowerCase}

\* urllib.parse.scheme_chars
scheme_chars == Letters \cup Digits \cup {"+", "-", "."}

\* str.lower()
Lower(s) ==
    [k \in 1..Len(s) |->
        IF \E u \in DOMAIN UpperCase : UpperCase[u] = s[k]
        THEN LowerCase[CHOOSE u \in DOMAIN UpperCase : UpperCase[u] = s[k]]
        ELSE s[k]]

\* s[from:] with a 1-based first position
From(s, from) == SubSeq(s, from, Len(s))

\* s[:2]
FirstTwo(s) == IF Len(s) >= 2 THEN SubSeq(s, 1, 2) ELSE s

(***************************************************************************)
(* urllib.parse, as called at lines 116-117.  The links of the model hold  *)
(* no whitespace, control characters or square brackets, so the leading    *)
(* strip, the removal of tab and newline and the IPv6 check of urlsplit    *)
(* leave them alone.                                                        *)
(***************************************************************************)
\* urllib.parse.uses_params and uses_netloc, restricted to the schemes of the model
uses_params == {<<>>, <<"h","t","t","p">>, <<"h","t","t","p","s">>}
uses_netloc == {<<>>, <<"h","t","t","p">>, <<"h","t","t","p","s">>}

\* The scheme split of urlsplit: <<scheme, rest>>.
SplitScheme(url) ==
    LET i == Find(url, ":", 1)
    IN  IF /\ i > 1
           /\ url[1] \in Letters
           /\ \A k \in 1..(i - 1) : url[k] \in scheme_chars
        THEN <<Lower(SubSeq(url, 1, i - 1)), From(url, i + 1)>>
        ELSE <<(<<>>), url>>

\* urllib.parse._splitnetloc(url, 2): <<domain, rest>>, the domain ending at the
\* earliest of "/", "?", "#" after the leading "//".
SplitNetloc(url) ==
    LET ends  == {k \in 3..Len(url) : url[k] \in {"/", "?", "#"}}
        delim == IF ends = {} THEN Len(url) + 1
                 ELSE CHOOSE k \in ends : \A j \in ends : k <= j
    IN  <<SubSeq(url, 3, delim - 1), From(url, delim)>>

\* url.split(c, 1) when c occurs in url, <<url, "">> otherwise.
SplitAt(url, c) ==
    LET i == Find(url, c, 1)
    IN  IF i = 0 THEN <<url, (<<>>)>> ELSE <<SubSeq(url, 1, i - 1), From(url, i + 1)>>

\* urllib.parse.urlsplit(url)
urlsplit(url) ==
    LET s  == SplitScheme(url)
        n  == IF FirstTwo(s[2]) = <<"/", "/">> THEN SplitNetloc(s[2]) ELSE <<(<<>>), s[2]>>
        f  == SplitAt(n[2], "#")
        q  == SplitAt(f[1], "?")
    IN  [scheme |-> s[1], netloc |-> n[1], path |-> q[1], query |-> q[2], fragment |-> f[2]]

\* urllib.parse._splitparams(url): <<url, params>>
SplitParams(url) ==
    LET slash == RFind(url, "/")
        i     == IF slash > 0 THEN Find(url, ";", slash) ELSE Find(url, ";", 1)
    IN  IF i = 0 THEN <<url, (<<>>)>> ELSE <<SubSeq(url, 1, i - 1), From(url, i + 1)>>

\* urllib.parse.urlparse(url)
urlparse(url) ==
    LET r == urlsplit(url)
        p == IF r.scheme \in uses_params /\ Contains(r.path, <<";">>)
             THEN SplitParams(r.path) ELSE <<r.path, (<<>>)>>
    IN  [scheme |-> r.scheme, netloc |-> r.netloc, path |-> p[1], params |-> p[2],
         query |-> r.query, fragment |-> r.fragment]

\* urllib.parse.urlunsplit((scheme, netloc, url, query, fragment))
urlunsplit(scheme, netloc, url, query, fragment) ==
    LET u1 == IF netloc # <<>> \/ (scheme # <<>> /\ scheme \in uses_netloc
                                   /\ FirstTwo(url) # <<"/", "/">>)
              THEN <<"/", "/">> \o netloc
                   \o (IF url # <<>> /\ url[1] # "/" THEN <<"/">> \o url ELSE url)
              ELSE url
        u2 == IF scheme # <<>> THEN scheme \o <<":">> \o u1 ELSE u1
        u3 == IF query # <<>> THEN u2 \o <<"?">> \o query ELSE u2
    IN  IF fragment # <<>> THEN u3 \o <<"#">> \o fragment ELSE u3

\* urllib.parse.urlunparse((scheme, netloc, url, params, query, fragment))
urlunparse(scheme, netloc, url, params, query, fragment) ==
    urlunsplit(scheme, netloc,
               IF params # <<>> THEN url \o <<";">> \o params ELSE url,
               query, fragment)

(***************************************************************************)
(* The steps of the body of the inner loop, lines 108-136.                 *)
(***************************************************************************)
\* The path segments of line 113.
ProfileSegment == <<"l","i","n","k","e","d","i","n",".","c","o","m","/","i","n","/">>
ExcludedSegments ==
    { <<"/","c","o","m","p","a","n","y","/">>,
      <<"/","j","o","b","s","/">>,
      <<"/","p","o","s","t","s","/">>,
      <<"/","s","c","h","o","o","l","/">>,
      <<"/","p","u","l","s","e","/">> }

\* A plausible slip: the exclusion list forgotten.
IsProfileLinkNoExclusions(raw_url) == Contains(raw_url, ProfileSegment)

\* A plausible slip: only the host looked for, "/in/" forgotten.
IsProfileLinkHostOnly(raw_url) ==
    /\ Contains(raw_url, <<"l","i","n","k","e","d","i","n",".","c","o","m","/">>)
    /\ ~ \E x \in ExcludedSegments \ {<<"/","c","o","m","p","a","n","y","/">>} :
            Contains(raw_url, x)

\* The condition of line 113.
IsProfileLink(raw_url) ==
    /\ Contains(raw_url, ProfileSegment)
    /\ ~ \E x \in ExcludedSegments : Contains(raw_url, x)

\* A plausible slip: the parsed query handed on to urlunparse.
CleanUrlKeepingQuery(raw_url) ==
    LET parsed_url == urlparse(raw_url)
    IN  urlunparse(parsed_url.scheme, parsed_url.netloc, parsed_url.path,
                   <<>>, parsed_url.query, <<>>)

\* clean_url of lines 116-117.
CleanUrl(raw_url) ==
    LET parsed_url == urlparse(raw_url)
    IN  urlunparse(parsed_url.scheme, parsed_url.netloc, parsed_url.path, <<>>, <<>>, <<>>)

\* A plausible slip: the duplicate check dropped (every accepted result is kept).
IsNewUrlAlways(clean_url, seen) == TRUE

\* The condition of line 120.
IsNewUrl(clean_url, seen) == clean_url \notin seen

\* A plausible slip: enumerate without start=1, the rank counted from 0.
MakeRowZeroBased(person, rank, clean_url, result) ==
    [input_name       |-> Get(person, "name", None),
     input_state      |-> Get(person, "state", None),
     google_rank      |-> rank - 1,
     linkedin_url     |-> clean_url,
     meta_title       |-> Get(result, "title", ""),
     meta_description |-> Get(result, "snippet", "")]

\* The dict of lines 125-136.
MakeRow(person, rank, clean_url, result) ==
    [input_name       |-> Get(person, "name", None),
     input_state      |-> Get(person, "state", None),
     google_rank      |-> rank,
     linkedin_url     |-> clean_url,
     meta_title       |-> Get(result, "title", ""),
     meta_description |-> Get(result, "snippet", "")]

\* A plausible slip: the row put at the head of the list.
AddRowInFront(rows, row) == <<row>> \o rows

\* all_results.append(row), line 129.
AddRow(rows, row) == Append(rows, row)

\* A plausible slip: the set created once, before the loop over input_data.
SeenUrlsCarriedOver == seen_urls

\* seen_urls = set(), line 105.
NewSeenUrls == {}

\* A plausible slip: only an unset variable counted as missing.
KeyMissingOnlyUnset(key) == key = None

\* `not api_key`, line 72: None and the empty string are falsy.
KeyMissing(key) == key = None \/ key = ""

\* A plausible slip: `break` in place of `continue`.
AfterRequestErrorBreak(ix) == Len(input_data) + 1

\* `continue`, line 103: the loop goes on with the next person.
AfterRequestError(ix) == ix + 1

\* pd.DataFrame(all_results), line 139: the rows, under the keys of the dicts as
\* columns; no columns when there is no row.
DataFrame(rows) ==
    [columns |-> IF rows = <<>> THEN {} ELSE DOMAIN rows[1],
     rows    |-> rows]

(***************************************************************************)
(* The inputs of the model: the environment, the argument and what the     *)
(* search API answers.                                                      *)
(***************************************************************************)
ApiKeys == {None, "", "dummy_key"}

Persons == { [name |-> "Jane Smith", state |-> "Texas"],
             [name |-> "John Doe",   state |-> "Maine"] }

\* https://linkedin.com/in/a
ProfileA == <<"h","t","t","p","s",":","/","/">> \o ProfileSegment \o <<"a">>
\* https://linkedin.com/in/b
ProfileB == <<"h","t","t","p","s",":","/","/">> \o ProfileSegment \o <<"b">>
\* ?t=1#x
Tracking == <<"?","t","=","1","#","x">>
\* https://linkedin.com/in/a/posts/
PostsOfA == ProfileA \o <<"/","p","o","s","t","s","/">>
\* https://linkedin.com/company/c
CompanyC == <<"h","t","t","p","s",":","/","/","l","i","n","k","e","d","i","n",".","c","o","m",
              "/","c","o","m","p","a","n","y","/","c">>

\* The organic results the API may return: dicts with a link and, optionally, a
\* title and a snippet, either of which may be null.
RawResults ==
    { [link |-> ProfileA, title |-> "John Doe", snippet |-> "CPA in Maine"],
      [link |-> ProfileA \o Tracking, title |-> "John Doe"],
      [link |-> ProfileB, title |-> "Jane Smith", snippet |-> None],
      [link |-> PostsOfA, title |-> "Post", snippet |-> "A post"],
      [link |-> CompanyC, title |-> "Doe CPA Firm", snippet |-> "Firm"] }

RECURSIVE SeqsUpTo(_, _)
\* The sequences over S of length at most n.
SeqsUpTo(S, n) ==
    IF n = 0 THEN {<<>>}
    ELSE LET shorter == SeqsUpTo(S, n - 1)
         IN  shorter \cup {Append(q, x) : q \in shorter, x \in S}

\* response.json() of a successful request: with an organic list, or without the key.
Payloads == {EmptyDict} \cup {[organic |-> l] : l \in SeqsUpTo(RawResults, MaxOrganic)}

RECURSIVE Returned(_)
\* The number of organic results in the responses of history h.
Returned(h) ==
    IF h = <<>> THEN 0
    ELSE Returned(SubSeq(h, 1, Len(h) - 1))
         + (IF h[Len(h)].ok THEN Len(Get(h[Len(h)].data, "organic", <<>>)) ELSE 0)

(***************************************************************************)
(* search_cpa_profiles                                                     *)
(***************************************************************************)
Init ==
    /\ api_key \in ApiKeys
    /\ input_data \in SeqsUpTo(Persons, MaxTargets)
    /\ pc = "start"
    /\ person_ix = 0
    /\ organic_results = <<>>
    /\ index = 0
    /\ seen_urls = {}
    /\ all_results = <<>>
    /\ returned = NoTable
    /\ posts = <<>>
    /\ responses = <<>>
    /\ row_person = <<>>
    /\ found_for_person = FALSE

\* Lines 71-73: the key is missing, ValueError leaves the function.
RaiseMissingKey ==
    /\ pc = "start"
    /\ KeyMissing(api_key)
    /\ pc' = "raised"
    /\ UNCHANGED <<api_key, input_data, person_ix, organic_results, index, seen_urls,
                   all_results, returned, posts, responses, row_person>>
    /\ UNCHANGED found_for_person

\* Lines 71-79: the key is there, the loop over input_data begins.
Begin ==
    /\ pc = "start"
    /\ ~ KeyMissing(api_key)
    /\ all_results' = <<>>
    /\ person_ix' = 1
    /\ pc' = "loop"
    /\ UNCHANGED <<api_key, input_data, organic_results, index, seen_urls,
                   returned, posts, responses, row_person>>
    /\ UNCHANGED found_for_person

\* Lines 79-103, the request raising RequestException (transport failure, or an
\* HTTP error status at raise_for_status): printed, and `continue`.
RequestFails ==
    /\ pc = "loop"
    /\ person_ix <= Len(input_data)
    /\ posts' = Append(posts, person_ix)
    /\ responses' = Append(responses, [ok |-> FALSE])
    /\ person_ix' = AfterRequestError(person_ix)
    /\ UNCHANGED <<api_key, input_data, pc, organic_results, index, seen_urls,
                   all_results, returned, row_person>>
    /\ UNCHANGED found_for_person

\* Lines 79-105, the request succeeding with payload `data`.
RequestSucceeds ==
    /\ pc = "loop"
    /\ person_ix <= Len(input_data)
    /\ \E data \in Payloads :
          /\ Returned(responses) + Len(Get(data, "organic", <<>>)) <= MaxResults
          /\ posts' = Append(posts, person_ix)
          /\ responses' = Append(responses, [ok |-> TRUE, data |-> data])
          /\ organic_results' = Get(data, "organic", <<>>)
    /\ seen_urls' = NewSeenUrls
    /\ index' = 1
    /\ pc' = "results"
    /\ UNCHANGED <<api_key, input_data, person_ix, all_results, returned, row_person>>
    /\ UNCHANGED found_for_person

\* Lines 108-136: one pass of the loop over organic_results.
ProcessResult ==
    /\ pc = "results"
    /\ index <= Len(organic_results)
    /\ LET result  == organic_results[index]
           raw_url == Get(result, "link", <<>>)
           clean_url == CleanUrl(raw_url)
       IN  IF IsProfileLink(raw_url) /\ IsNewUrl(clean_url, seen_urls)
           THEN /\ seen_urls' = seen_urls \cup {clean_url}
                /\ all_results' = AddRow(all_results,
                                         MakeRow(input_data[person_ix], index, clean_url, result))
                /\ row_person' = AddRow(row_person, person_ix)
           ELSE UNCHANGED <<seen_urls, all_results, row_person>>
    /\ index' = index + 1
    /\ UNCHANGED <<api_key, input_data, pc, person_ix, organic_results, returned,
                   posts, responses>>
    /\ UNCHANGED found_for_person

\* Line 108 with organic_results exhausted: on to the next person (line 79).
FinishPerson ==
    /\ pc = "results"
    /\ index > Len(organic_results)
    /\ person_ix' = person_ix + 1
    /\ pc' = "loop"
    /\ UNCHANGED <<api_key, input_data, organic_results, index, seen_urls,
                   all_results, returned, posts, responses, row_person>>
    /\ UNCHANGED found_for_person

\* Lines 139-141, input_data exhausted: the table is built and returned.
Return ==
    /\ pc = "loop"
    /\ person_ix > Len(input_data)
    /\ returned' = DataFrame(all_results)
    /\ pc' = "done"
    /\ UNCHANGED <<api_key, input_data, person_ix, organic_results, index, seen_urls,
                   all_results, posts, responses, row_person>>
    /\ UNCHANGED found_for_person

Next ==
    \/ RaiseMissingKey
    \/ Begin
    \/ RequestFails
    \/ RequestSucceeds
    \/ ProcessResult
    \/ FinishPerson
    \/ Return

Spec == Init /\ [][Next]_vars

(***************************************************************************)
(* search_profiles of src/demo_app.py, called at line 125 with a key that  *)
(* is not empty (line 114) and a list that is not empty (line 124).        *)
(***************************************************************************)
\* The path segments of line 68.
AppExcludedSegments ==
    { <<"/","c","o","m","p","a","n","y","/">>,
      <<"/","j","o","b","s","/">>,
      <<"/","p","o","s","t","s","/">> }

\* The condition of line 68.
AppIsProfileLink(link) ==
    /\ Contains(link, ProfileSegment)
    /\ ~ \E x \in AppExcludedSegments : Contains(link, x)

\* The dict of lines 74-81.
AppMakeRow(person, rank, clean_url, item) ==
    [k \in {"Input Name", "Input State", "Google Rank", "Title", "Snippet", "LinkedIn URL"} |->
        CASE k = "Input Name"   -> person["name"]
          [] k = "Input State"  -> person["state"]
          [] k = "Google Rank"  -> rank
          [] k = "Title"        -> Get(item, "title", None)
          [] k = "Snippet"      -> Get(item, "snippet", None)
          [] k = "LinkedIn URL" -> clean_url]

\* The dict of lines 86-93; the "-" of the url is a sequence, as the urls are.
PlaceholderRow(person) ==
    [k \in {"Input Name", "Input State", "Google Rank", "Title", "Snippet", "LinkedIn URL"} |->
        CASE k = "Input Name"   -> person["name"]
          [] k = "Input State"  -> person["state"]
          [] k = "Google Rank"  -> "-"
          [] k = "Title"        -> "No Profile Found"
          [] k = "Snippet"      -> "-"
          [] k = "LinkedIn URL" -> <<"-">>]

\* Lines 29-39: the call, the loop over names_list begins.
AppBegin ==
    /\ pc = "start"
    /\ ~ KeyMissing(api_key)
    /\ input_data # <<>>
    /\ all_results' = <<>>
    /\ person_ix' = 1
    /\ pc' = "app_loop"
    /\ UNCHANGED <<api_key, input_data, organic_results, index, seen_urls,
                   returned, posts, responses, row_person, found_for_person>>

\* Lines 39-55 and 95-96: requests.post or response.json() raising; st.error,
\* and the loop goes on with the next person.
AppRequestFails ==
    /\ pc = "app_loop"
    /\ person_ix <= Len(input_data)
    /\ posts' = Append(posts, person_ix)
    /\ responses' = Append(responses, [ok |-> FALSE])
    /\ person_ix' = person_ix + 1
    /\ UNCHANGED <<api_key, input_data, pc, organic_results, index, seen_urls,
                   all_results, returned, row_person, found_for_person>>

\* Lines 39-63, the request answered with payload `data`.
AppRequestSucceeds ==
    /\ pc = "app_loop"
    /\ person_ix <= Len(input_data)
    /\ \E data \in Payloads :
          /\ Returned(responses) + Len(Get(data, "organic", <<>>)) <= MaxResults
          /\ posts' = Append(posts, person_ix)
          /\ responses' = Append(responses, [ok |-> TRUE, data |-> data])
          /\ organic_results' = Get(data, "organic", <<>>)
    /\ found_for_person' = FALSE
    /\ index' = 1
    /\ pc' = "app_results"
    /\ UNCHANGED <<api_key, input_data, person_ix, seen_urls, all_results, returned,
                   row_person>>

\* Lines 64-82: one pass of the loop over organic.
AppProcessResult ==
    /\ pc = "app_results"
    /\ index <= Len(organic_results)
    /\ LET item == organic_results[index]
           link == Get(item, "link", <<>>)
       IN  IF AppIsProfileLink(link)
           THEN /\ all_results' = Append(all_results,
                                         AppMakeRow(input_data[person_ix], index,
                                                    CleanUrl(link), item))
                /\ row_person' = Append(row_person, person_ix)
                /\ found_for_person' = TRUE
           ELSE UNCHANGED <<all_results, row_person, found_for_person>>
    /\ index' = index + 1
    /\ UNCHANGED <<api_key, input_data, pc, person_ix, organic_results, seen_urls,
                   returned, posts, responses>>

\* Lines 85-93 with organic exhausted: the placeholder when nothing was found,
\* then on to the next person.
AppFinishPerson ==
    /\ pc = "app_results"
    /\ index > Len(organic_results)
    /\ IF ~ found_for_person
       THEN /\ all_results' = Append(all_results, PlaceholderRow(input_data[person_ix]))
            /\ row_person' = Append(row_person, person_ix)
       ELSE UNCHANGED <<all_results, row_person>>
    /\ person_ix' = person_ix + 1
    /\ pc' = "app_loop"
    /\ UNCHANGED <<api_key, input_data, organic_results, index, seen_urls,
                   returned, posts, responses, found_for_person>>

\* Line 98, names_list exhausted.
AppReturn ==
    /\ pc = "app_loop"
    /\ person_ix > Len(input_data)
    /\ returned' = DataFrame(all_results)
    /\ pc' = "app_done"
    /\ UNCHANGED <<api_key, input_data, person_ix, organic_results, index, seen_urls,
                   all_results, posts, responses, row_person, found_for_person>>

NextApp ==
    \/ AppBegin
    \/ AppRequestFails
    \/ AppRequestSucceeds
    \/ AppProcessResult
    \/ AppFinishPerson
    \/ AppReturn

\* Either function is run.
NextEither == Next \/ NextApp

SpecEither == Init /\ [][NextEither]_vars

(***************************************************************************)
(* Vocabulary of the properties.                                           *)
(***************************************************************************)
\* The persons a request has been made for.
Queried == 1..Len(responses)

\* The organic list returned for person t, empty when the request failed or the
\* payload had no "organic" key.
OrganicOf(t) ==
    IF responses[t].ok THEN Get(responses[t].data, "organic", <<>>) ELSE <<>>

LinkOf(t, i) == Get(OrganicOf(t)[i], "link", <<>>)

\* How many results of person t the inner loop has passed.
Passed(t) ==
    IF t < person_ix \/ pc \in {"done", "app_done"} THEN Len(OrganicOf(t))
    ELSE IF t = person_ix /\ pc \in {"results", "app_results"} THEN index - 1
    ELSE 0

\* Person t is behind the loop.
Finished(t) == t \in Queried /\ (t < person_ix \/ pc \in {"done", "app_done"})

\* The positions in all_results of the rows appended under person t.
RowsOf(t) == {k \in 1..Len(all_results) : row_person[k] = t}

\* The acceptance rule as the specification states it.
StatedProfileSegment == <<"l","i","n","k","e","d","i","n",".","c","o","m","/","i","n","/">>
StatedExclusions ==
    { <<"/","c","o","m","p","a","n","y","/">>, <<"/","j","o","b","s","/">>,
      <<"/","p","o","s","t","s","/">>, <<"/","s","c","h","o","o","l","/">>,
      <<"/","p","u","l","s","e","/">> }
StatedAcceptLink(link) ==
    /\ Contains(link, StatedProfileSegment)
    /\ \A x \in StatedExclusions : ~ Contains(link, x)

\* The links the API may return, the empty link of a result without one among them.
Links == {Get(r, "link", <<>>) : r \in RawResults} \cup {<<>>}

\* The stated rule, the normalized URL and the parse of every link, tabulated once.
AcceptedLinks == {l \in Links : StatedAcceptLink(l)}
NormalizedLinks == {<<l, CleanUrl(l)>> : l \in Links}

ParsedLinks == {<<l, urlparse(l)>> : l \in Links}

StatedAccept(link) == link \in AcceptedLinks
Parsed(link) == (CHOOSE p \in ParsedLinks : p[1] = link)[2]
Normalized(link) == (CHOOSE p \in NormalizedLinks : p[1] = link)[2]

\* The positions of organic list `organic` that are to give a row: accepted links
\* whose normalized URL no earlier accepted link has.
Kept(organic) ==
    {i \in 1..Len(organic) :
        /\ StatedAccept(Get(organic[i], "link", <<>>))
        /\ \A j \in 1..(i - 1) :
              StatedAccept(Get(organic[j], "link", <<>>))
                 => Normalized(Get(organic[j], "link", <<>>)) # Normalized(Get(organic[i], "link", <<>>))}

\* <<rank, url, title, description>> of the rows of person t, in table order.
RowsOfPerson(t) ==
    LET at == RowsOf(t)
    IN  [n \in 1..Cardinality(at) |->
            LET k == CHOOSE k \in at : Cardinality({j \in at : j <= k}) = n
            IN  <<all_results[k].google_rank, all_results[k].linkedin_url,
                  all_results[k].meta_title, all_results[k].meta_description>>]

(***************************************************************************)
(* C1: the linkedin_url values of the rows emitted for one Target are      *)
(* pairwise distinct, and the accepted results of a Target whose links     *)
(* normalize to one URL give exactly one row for that Target.              *)
(***************************************************************************)
UrlsDistinctPerTarget ==
    /\ \A j, k \in 1..Len(all_results) :
          (j # k /\ row_person[j] = row_person[k])
             => all_results[j].linkedin_url # all_results[k].linkedin_url
    /\ \A t \in Queried : \A i \in 1..Passed(t) :
          StatedAccept(LinkOf(t, i))
             => Cardinality({k \in RowsOf(t) :
                               all_results[k].linkedin_url = Normalized(LinkOf(t, i))}) = 1

\* A finished Target with two accepted results of different links and one normalized URL.
DuplicateCollapsed ==
    \E t \in Queried :
       /\ Finished(t)
       /\ \E i, j \in 1..Len(OrganicOf(t)) :
             /\ i < j
             /\ LinkOf(t, i) # LinkOf(t, j)
             /\ StatedAccept(LinkOf(t, i)) /\ StatedAccept(LinkOf(t, j))
             /\ Normalized(LinkOf(t, i)) = Normalized(LinkOf(t, j))
       /\ Cardinality(RowsOf(t)) = 1

(***************************************************************************)
(* C2: a link is accepted exactly when it contains "linkedin.com/in/" and  *)
(* none of "/company/", "/jobs/", "/posts/", "/school/", "/pulse/": every  *)
(* row comes from an accepted link at its rank, and every accepted link a  *)
(* Target's loop has passed has a row at its own rank unless an earlier    *)
(* row of that Target already carries its normalized URL.                  *)
(***************************************************************************)
RowsExactlyFromAcceptedLinks ==
    /\ \A k \in 1..Len(all_results) :
          LET t == row_person[k]
              r == all_results[k].google_rank
          IN  /\ t \in Queried
              /\ r \in 1..Passed(t)
              /\ StatedAccept(LinkOf(t, r))
    /\ \A t \in Queried : \A i \in 1..Passed(t) :
          StatedAccept(LinkOf(t, i))
             => \/ \E k \in RowsOf(t) : all_results[k].google_rank = i
                \/ \E k \in RowsOf(t) :
                      /\ all_results[k].google_rank < i
                      /\ all_results[k].linkedin_url = Normalized(LinkOf(t, i))

\* A finished Target whose list held an accepted link and a link with
\* "linkedin.com/in/" rejected for an excluded segment, with one row.
AcceptedBesideRejected ==
    \E t \in Queried :
       /\ Finished(t)
       /\ \E i, j \in 1..Len(OrganicOf(t)) :
             /\ StatedAccept(LinkOf(t, i))
             /\ Contains(LinkOf(t, j), StatedProfileSegment)
             /\ ~ StatedAccept(LinkOf(t, j))
       /\ Cardinality(RowsOf(t)) = 1

(***************************************************************************)
(* C3, as stated: a Target whose request succeeds and whose results give   *)
(* no ResultRecord gets exactly one placeholder row from                   *)
(* search_cpa_profiles, with a sentinel rank, a sentinel url and the       *)
(* "not found" title.                                                      *)
(***************************************************************************)
FinderPcs == {"loop", "results", "done"}
AppPcs == {"app_loop", "app_results", "app_done"}

\* No link of the organic list of person t passes the stated filter.
NothingAccepted(t) ==
    \A i \in 1..Len(OrganicOf(t)) : ~ StatedAccept(LinkOf(t, i))

PlaceholderWhenNothingFound ==
    \A t \in Queried :
       (pc \in FinderPcs /\ Finished(t) /\ responses[t].ok /\ NothingAccepted(t))
          => \E k \in RowsOf(t) :
                /\ RowsOf(t) = {k}
                /\ all_results[k].google_rank \notin 1..Len(OrganicOf(t))
                /\ ~ Contains(all_results[k].linkedin_url, StatedProfileSegment)
                /\ all_results[k].meta_title = "No Profile Found"

(***************************************************************************)
(* C3, amended: for such a Target search_cpa_profiles emits no row at all, *)
(* and a run in which no Target gives a record returns an empty table; the *)
(* single placeholder row (rank "-", url "-", title "No Profile Found")    *)
(* is what search_profiles of the demo application emits for a Target      *)
(* none of whose links passes its filter ("linkedin.com/in/" without       *)
(* "/company/", "/jobs/", "/posts/").                                      *)
(***************************************************************************)
NoRowWhenNothingFound ==
    /\ \A t \in Queried :
          (pc \in FinderPcs /\ Finished(t) /\ responses[t].ok /\ NothingAccepted(t))
             => RowsOf(t) = {}
    /\ (pc = "done" /\ \A t \in Queried : NothingAccepted(t))
          => returned = [columns |-> {}, rows |-> <<>>]
    /\ \A t \in Queried :
          (/\ pc \in AppPcs /\ Finished(t) /\ responses[t].ok
           /\ \A i \in 1..Len(OrganicOf(t)) :
                 \/ ~ Contains(LinkOf(t, i), StatedProfileSegment)
                 \/ \E x \in { <<"/","c","o","m","p","a","n","y","/">>,
                                <<"/","j","o","b","s","/">>,
                                <<"/","p","o","s","t","s","/">> } :
                       Contains(LinkOf(t, i), x))
             => \E k \in RowsOf(t) :
                   /\ RowsOf(t) = {k}
                   /\ all_results[k]["Google Rank"] = "-"
                   /\ all_results[k]["LinkedIn URL"] = <<"-">>
                   /\ all_results[k]["Title"] = "No Profile Found"
                   /\ all_results[k]["Input Name"] = input_data[t].name

\* search_cpa_profiles has returned; a Target's request succeeded with a list
\* that is not empty, none of its links was accepted, and it has no row.
NothingFoundNoRow ==
    /\ pc = "done"
    /\ \E t \in Queried :
          /\ responses[t].ok
          /\ OrganicOf(t) # <<>>
          /\ NothingAccepted(t)
          /\ RowsOf(t) = {}

(***************************************************************************)
(* C4: a failing request does not abort the run: the failing Target has no *)
(* row at all, every Target of the input is queried by the time the        *)
(* function returns, and it does return a table; the rows of every other   *)
(* Target are those its own organic list gives, whatever failed before.    *)
(***************************************************************************)
FailedRequestSkipsOnlyThatTarget ==
    /\ \A t \in Queried : ~ responses[t].ok => RowsOf(t) = {}
    /\ pc = "done" => /\ Len(posts) = Len(input_data)
                      /\ \A t \in 1..Len(input_data) : posts[t] = t
                      /\ returned # NoTable
    /\ \A f, t \in Queried :
          (~ responses[f].ok /\ responses[t].ok /\ Finished(t))
             => /\ Cardinality(RowsOf(t)) = Cardinality(Kept(OrganicOf(t)))
                /\ \A i \in Kept(OrganicOf(t)) :
                      \E k \in RowsOf(t) :
                         /\ all_results[k].google_rank = i
                         /\ all_results[k].linkedin_url = Normalized(LinkOf(t, i))

\* The function has returned; a request failed and a later Target has a row.
RowAfterFailedRequest ==
    /\ pc = "done"
    /\ \E f, t \in Queried :
          /\ f < t
          /\ ~ responses[f].ok
          /\ RowsOf(f) = {}
          /\ RowsOf(t) # {}

(***************************************************************************)
(* C5: with the API key unset or empty the call ends in the configuration  *)
(* error before any Target is processed: no request is sent, no row is     *)
(* built and no table is returned, whatever the input list.                *)
(***************************************************************************)
MissingKeyIsFatal ==
    (api_key = None \/ api_key = "")
       => /\ pc \in {"start", "raised"}
          /\ posts = <<>>
          /\ all_results = <<>>
          /\ returned = NoTable

\* The error has been raised for an empty key and an input list of two persons.
RaisedOnEmptyKey ==
    /\ pc = "raised"
    /\ api_key = ""
    /\ Len(input_data) = 2

(***************************************************************************)
(* C6: google_rank is the 1-based position of the row's source result in   *)
(* the organic list of the response, rejected and duplicate results        *)
(* counted; of several accepted results with one normalized URL the row    *)
(* carries the position of the first.                                      *)
(***************************************************************************)
RankIsPositionInOrganicList ==
    \A k \in 1..Len(all_results) :
       LET t == row_person[k]
           r == all_results[k].google_rank
       IN  /\ t \in Queried
           /\ r \in 1..Len(OrganicOf(t))
           /\ all_results[k].linkedin_url = Normalized(LinkOf(t, r))
           /\ all_results[k].meta_title = Get(OrganicOf(t)[r], "title", "")
           /\ \A j \in 1..(r - 1) :
                 StatedAccept(LinkOf(t, j))
                    => Normalized(LinkOf(t, j)) # all_results[k].linkedin_url

\* The only row of a finished Target has rank 2: its position among the
\* accepted results is 1.
RankCountsRejected ==
    \E t \in Queried :
       /\ Finished(t)
       /\ Len(OrganicOf(t)) = 2
       /\ ~ StatedAccept(LinkOf(t, 1))
       /\ \E k \in RowsOf(t) : all_results[k].google_rank = 2

(***************************************************************************)
(* C7: linkedin_url is the scheme, host and path of the source link put    *)
(* together again, query string and fragment dropped: it holds no "?" and  *)
(* no "#", and a clean profile URL followed by "?" and tracking parameters *)
(* gives exactly the clean URL.                                            *)
(***************************************************************************)
\* <<link, clean>> for every link that is clean profile URL `clean` followed by "?...".
TrackedLinks ==
    {<<l, clean>> : l \in Links, clean \in {ProfileA, ProfileB}} \cap
    {p \in Links \X {ProfileA, ProfileB} :
        /\ Len(p[1]) > Len(p[2])
        /\ SubSeq(p[1], 1, Len(p[2])) = p[2]
        /\ p[1][Len(p[2]) + 1] = "?"}

\* <<link, scheme://host/path>> for every link with a scheme and a host.
SchemeHostPath ==
    {<<l, Parsed(l).scheme \o <<":", "/", "/">> \o Parsed(l).netloc \o Parsed(l).path>> :
        l \in {x \in Links : Parsed(x).scheme # <<>> /\ Parsed(x).netloc # <<>>}}

UrlIsSchemeHostPath ==
    \A k \in 1..Len(all_results) :
       LET link == LinkOf(row_person[k], all_results[k].google_rank)
           url  == all_results[k].linkedin_url
       IN  /\ \A c \in 1..Len(url) : url[c] \notin {"?", "#"}
           /\ \A p \in SchemeHostPath : p[1] = link => url = p[2]
           /\ \A p \in TrackedLinks : p[1] = link => url = p[2]

\* A row whose source link is profile A with tracking parameters and whose
\* linkedin_url is profile A.
TrackingStripped ==
    \E k \in 1..Len(all_results) :
       /\ LinkOf(row_person[k], all_results[k].google_rank) = ProfileA \o Tracking
       /\ all_results[k].linkedin_url = ProfileA

(***************************************************************************)
(* C8: meta_title and meta_description of every row are strings, never     *)
(* null: where the title or snippet of the raw result is absent or null    *)
(* the field is the empty string, and the row's url and rank are there.    *)
(***************************************************************************)
MetaNeverNull ==
    \A k \in 1..Len(all_results) :
       LET src == OrganicOf(row_person[k])[all_results[k].google_rank]
           row == all_results[k]
       IN  /\ row.meta_title # None
           /\ row.meta_description # None
           /\ ("title" \notin DOMAIN src \/ src["title"] = None) => row.meta_title = ""
           /\ ("snippet" \notin DOMAIN src \/ src["snippet"] = None) => row.meta_description = ""

(***************************************************************************)
(* C9: the rows are in Target-input order and, within one Target, in       *)
(* strictly ascending google_rank order, each row naming its Target; the   *)
(* Targets are queried one at a time in input order, the request for a     *)
(* Target made only once the Targets before it are behind the loop; the    *)
(* returned table holds the rows in that order.                            *)
(***************************************************************************)
RowsInInputAndRankOrder ==
    /\ \A j, k \in 1..Len(all_results) :
          j < k => /\ row_person[j] <= row_person[k]
                   /\ row_person[j] = row_person[k]
                         => all_results[j].google_rank < all_results[k].google_rank
    /\ \A k \in 1..Len(all_results) :
          /\ all_results[k].input_name = input_data[row_person[k]].name
          /\ all_results[k].input_state = input_data[row_person[k]].state
    /\ \A j \in 1..Len(posts) : posts[j] = j
    /\ pc = "results" => Len(posts) = person_ix
    /\ pc = "loop" => Len(posts) = person_ix - 1
    /\ pc = "done" => returned.rows = all_results

\* The returned table holds rows of two Targets.
TableWithTwoTargets ==
    /\ pc = "done"
    /\ \E j, k \in 1..Len(returned.rows) :
          /\ j < k
          /\ row_person[j] = 1
          /\ row_person[k] = 2

(***************************************************************************)
(* C10: the set of seen URLs is empty when a Target's processing starts    *)
(* and holds the URLs of that Target's rows only; a URL emitted for an     *)
(* earlier Target is emitted again for a later Target whose results hold   *)
(* it, and two Targets with the same organic list get the same ranks,      *)
(* URLs, titles and descriptions.                                          *)
(***************************************************************************)
SeenUrlsNotCarriedOver ==
    /\ pc = "results"
          => seen_urls = {all_results[k].linkedin_url : k \in RowsOf(person_ix)}
    /\ (pc = "results" /\ index = 1) => seen_urls = {}
    /\ \A t \in Queried : \A i \in 1..Passed(t) :
          StatedAccept(LinkOf(t, i))
             => \E k \in RowsOf(t) : all_results[k].linkedin_url = Normalized(LinkOf(t, i))
    /\ \A s, t \in Queried :
          (Finished(s) /\ Finished(t) /\ responses[s].ok /\ responses[t].ok
              /\ OrganicOf(s) = OrganicOf(t))
             => RowsOfPerson(s) = RowsOfPerson(t)

\* Two Targets each have a row with the same linkedin_url.
SameUrlForTwoTargets ==
    \E j, k \in 1..Len(all_results) :
       /\ row_person[j] < row_person[k]
       /\ all_results[j].linkedin_url = all_results[k].linkedin_url

====
